---------------------------- MODULE Spec2Model ----------------------------
(***************************************************************************)
(* Token-to-instance lifecycle manager of fastify-mcp-server:              *)
(*   TokenBasedServerProvider (registry + instance cache + verifier),      *)
(*   SessionManager (session table), FastifyMcpServer.shutdown and the     *)
(*   PerBearerMcpServer facade with its event feed.                        *)
(*                                                                         *)
(* JavaScript runs one synchronous segment at a time; every action below   *)
(* is one such segment: the part of an async method up to its next await,  *)
(* or the continuation that runs when the awaited promise settles.         *)
(***************************************************************************)
EXTENDS Integers, Sequences, FiniteSets, TLC

\* ------------------------------------------------------------------ bounds
MaxOps == 4          \* provider and facade calls started in one behaviour
MaxSessionOps == 3   \* SessionManager and shutdown calls started in one behaviour
MaxServers == 3      \* instances the factories construct in one behaviour
MaxTransports == 2   \* transports createSession hands out in one behaviour

\* ------------------------------------------------------------- input sets
Tokens == {"c1", "c2"}
Factories == {"f1", "f2"}
TransportErrors == {"ECONNRESET", "EPIPE"}   \* errors a transport reports
NoToken == ""        \* createSession() called without a token
NoServer == -1       \* undefined server / no cache entry
Default == 0         \* the shared default server; factory instances are 1, 2, ...

\* a registered factory: the user's function and the facade wrapper around it
\* (wrap = "none": registered with the provider directly)
Factory(fn, wrap) == [fn |-> fn, wrap |-> wrap]
NoFactory == Factory("", "")    \* Map.get() -> undefined

\* serverInfo.name of the server a user factory builds ("": it has none)
FactoryServerName(fn) == IF fn = "f1" THEN "f1-server" ELSE ""

\* serverInfo.version of the server a user factory builds ("": it has none)
FactoryServerVersion(fn) == IF fn = "f1" THEN "2.1.0" ELSE ""

ErrInvalidToken == "Invalid token"
ErrNoFactory == "No server factory found for token"
ErrNoServer == "No server available for session creation"
ErrNoManager == "Either defaultServer or bearerTokenProvider must be provided"
ErrRunning == "Server is already running"
ErrNotRunning == "Server is not running"
ErrNoDecorator == "decorator not present"
ErrShutdown == "shutdown failed"
ErrListen == "listen failed"
ErrClose == "close failed"
ErrNoDefault == "Cannot read properties of undefined (reading 'close')"
ErrFactory == "factory error"

VARIABLES
  tokenToServerFactory,  \* insertion-ordered Map token -> factory, as a sequence of entries
  activeServers,         \* Map token -> cached server (NoServer: no entry)
  instances,             \* instances[i]: the i-th server a factory constructed
  calls,                 \* createServerForToken / createSession calls suspended at an await
  removals,              \* removeActiveServer continuations awaiting server.close()
  factoryCalls,          \* factoryCalls[t]: invocations of a factory registered for t
  defaultServer,         \* SessionManager.defaultServer (Default or NoServer)
  hasProvider,           \* SessionManager.bearerTokenProvider is set
  plugin,                \* the SessionManager was constructed by FastifyMcpServer
  facade,                \* the provider belongs to a PerBearerMcpServer
  transports,            \* transports[i]: i-th transport returned by createSession
  sessions,              \* Map sessionId -> SessionInfo of the SessionManager
  destroys,              \* destroySession continuations awaiting server.close()
  sweeps,                \* destroyAllSessions / shutdown promises not yet settled
  defaultCloseCalls,     \* close() calls received by the default server
  emitted,               \* events emitted by the SessionManager so far
  app,                   \* PerBearerMcpServer.app is set
  startPc,               \* where a PerBearerMcpServer start()/stop() call is suspended
  serverInfo,            \* PerBearerMcpServer.serverInfo is set
  listening,             \* the facade listeners are attached to the SessionManager
  activeSessions,        \* PerBearerMcpServer.activeSessions: sessionId -> SessionInfo
  emits,                 \* events the facade emitted in the last step
  lastRet,               \* lastRet[t]: server the last createServerForToken(t) returned, reset by mutations
  opCount,               \* provider and facade calls started so far
  sessionOps,            \* SessionManager and shutdown calls started so far
  done                   \* the call that settled in the last step, with its outcome

vars == <<tokenToServerFactory, activeServers, instances, calls, removals,
          factoryCalls, defaultServer, hasProvider, plugin, facade, transports,
          sessions, destroys, sweeps, defaultCloseCalls, emitted, app, startPc,
          serverInfo, listening, activeSessions, emits, lastRet, opCount,
          sessionOps, done>>

providerVars == <<tokenToServerFactory, activeServers, instances, calls,
                  removals, factoryCalls, lastRet>>
sessionVars == <<transports, sessions, destroys, sweeps, defaultCloseCalls,
                 emitted>>
configVars == <<defaultServer, hasProvider, plugin, facade>>
countVars == <<opCount, sessionOps>>
facadeVars == <<app, startPc, serverInfo, listening, activeSessions>>

\* ---------------------------------------------------------------- helpers
RemoveAt(s, i) == SubSeq(s, 1, i - 1) \o SubSeq(s, i + 1, Len(s))

\* Map.has(token)
MapHas(m, token) == \E i \in 1..Len(m) : m[i].token = token

\* Map.get(token)
MapGet(m, token) ==
  IF MapHas(m, token)
  THEN m[CHOOSE i \in 1..Len(m) : m[i].token = token].factory
  ELSE NoFactory

\* (variant: a set that appends an entry whether or not the key is there)
MapSet_Append(m, token, factory) ==
  Append(m, [token |-> token, factory |-> factory])

\* Map.set(token, factory): an existing key keeps its position
MapSet(m, token, factory) ==
  IF MapHas(m, token)
  THEN [i \in 1..Len(m) |->
          IF m[i].token = token THEN [token |-> token, factory |-> factory] ELSE m[i]]
  ELSE Append(m, [token |-> token, factory |-> factory])

\* Map.delete(token)
MapDelete(m, token) ==
  IF MapHas(m, token)
  THEN RemoveAt(m, CHOOSE i \in 1..Len(m) : m[i].token = token)
  ELSE m

\* (variant: a delete that reports success whether or not the key was there)
MapDeleteResult_Const(m, token) == TRUE

\* the boolean Map.delete(token) returns
MapDeleteResult(m, token) == MapHas(m, token)

\* Array.from(map.keys())
MapKeys(m) == [i \in 1..Len(m) |-> m[i].token]

\* new Map(Object.entries(tokenMappings)) for the mappings a constructor is given
InitialMappings ==
  { <<>>,
    <<[token |-> "c1", factory |-> Factory("f1", "none")]>>,
    <<[token |-> "c1", factory |-> Factory("f1", "none")],
      [token |-> "c2", factory |-> Factory("f1", "none")]>> }

\* --------------------------------------------------------- settled calls
NoAuth == [token |-> NoToken, clientId |-> <<>>, scopes |-> <<>>]

\* The outcome of the call that settled in the last step (op = "": none did);
\* every call fills in the fields it has.
Ret(op, token) ==
  [op |-> op, token |-> token, sid |-> 0,
   server |-> NoServer, error |-> "", bool |-> FALSE, hit |-> FALSE,
   prev |-> NoServer, clean |-> TRUE, auth |-> NoAuth, ids |-> {},
   closeOk |-> TRUE]

Idle == Ret("", NoToken)

\* an event of the facade, with the payload fields it carries
Event(name, token, sid, serverName, flag) ==
  [name |-> name, token |-> token, sid |-> sid, serverName |-> serverName, flag |-> flag,
   serverVersion |-> "", error |-> ""]

\* ------------------------------------------------ TokenBasedServerProvider
\* Instances cached for `token` when a mutation of `token` runs (history:
\* tells the instance cached before a mutation from one built after it).
Invalidated(insts, cache, token) ==
  [i \in 1..Len(insts) |->
     IF cache[token] = i THEN [insts[i] EXCEPT !.invalidated = TRUE] ELSE insts[i]]

\* Calls suspended on a factory of `token` when a mutation of `token` runs.
Perturbed(cs, token) ==
  [i \in 1..Len(cs) |->
     IF cs[i].token = token THEN [cs[i] EXCEPT !.stale = TRUE, !.clean = FALSE] ELSE cs[i]]

\* server.close() is called by `who`
CloseCalled(insts, server, who) ==
  [insts EXCEPT ![server].closeCalls = @ + 1, ![server].closedBy = @ \cup {who}]

\* removeActiveServer(token), up to its await: st = [instances, removals]
removeActiveServer(st, cache, token) ==
  LET server == cache[token] IN
  IF server # NoServer
  THEN [instances |-> CloseCalled(st.instances, server, "cache"),
        removals |-> Append(st.removals, [token |-> token, server |-> server])]
  ELSE st

\* cleanupAllActiveServers(): removeActiveServer for every key of the cache
RECURSIVE cleanupAllActiveServers(_, _, _)
cleanupAllActiveServers(st, cache, keys) ==
  IF keys = {} THEN st
  ELSE LET t == CHOOSE k \in keys : TRUE IN
       cleanupAllActiveServers(removeActiveServer(st, cache, t), cache, keys \ {t})

\* (variant: no try/catch around close(), a rejection aborts removeActiveServer)
RemovalContinues_NoCatch(closeOk) == closeOk

\* removeActiveServer goes on to delete the cache entry when close() settled
\* with closeOk
RemovalContinues(closeOk) == TRUE

ProviderState == [instances |-> instances, removals |-> removals]

\* TokenBasedServerProvider.addToken(token, serverFactory)
ProviderAddToken(token, factory) ==
  /\ tokenToServerFactory' = MapSet(tokenToServerFactory, token, factory)
  /\ LET st == removeActiveServer(ProviderState, activeServers, token) IN
       /\ instances' = Invalidated(st.instances, activeServers, token)
       /\ removals' = st.removals
  /\ calls' = Perturbed(calls, token)
  /\ lastRet' = [lastRet EXCEPT ![token] = NoServer]
  /\ UNCHANGED <<activeServers, factoryCalls>>

\* TokenBasedServerProvider.removeToken(token); its return value is
\* MapHas(tokenToServerFactory, token) of the state it is called in
ProviderRemoveToken(token) ==
  LET existed == MapDeleteResult(tokenToServerFactory, token)
      st == IF existed
            THEN removeActiveServer(ProviderState, activeServers, token)
            ELSE ProviderState
  IN /\ tokenToServerFactory' = MapDelete(tokenToServerFactory, token)
     /\ instances' = IF existed
                     THEN Invalidated(st.instances, activeServers, token)
                     ELSE instances
     /\ removals' = st.removals
     /\ calls' = IF existed THEN Perturbed(calls, token) ELSE calls
     /\ lastRet' = [lastRet EXCEPT ![token] = NoServer]
     /\ UNCHANGED <<activeServers, factoryCalls>>

\* (variant: an update that registers the token when it is missing)
ProviderUpdateToken_Upsert(token, factory) == ProviderAddToken(token, factory)

\* TokenBasedServerProvider.updateToken(token, serverFactory); its return
\* value is MapHas(tokenToServerFactory, token) of the state it is called in
ProviderUpdateToken(token, factory) ==
  IF ~MapHas(tokenToServerFactory, token)
  THEN /\ lastRet' = [lastRet EXCEPT ![token] = NoServer]
       /\ UNCHANGED <<tokenToServerFactory, activeServers, instances, removals,
                      calls, factoryCalls>>
  ELSE /\ tokenToServerFactory' = MapSet(tokenToServerFactory, token, factory)
       /\ LET st == removeActiveServer(ProviderState, activeServers, token) IN
            /\ instances' = Invalidated(st.instances, activeServers, token)
            /\ removals' = st.removals
       /\ calls' = Perturbed(calls, token)
       /\ lastRet' = [lastRet EXCEPT ![token] = NoServer]
       /\ UNCHANGED <<activeServers, factoryCalls>>

addToken(token, fn) ==
  /\ opCount < MaxOps
  /\ opCount' = opCount + 1
  /\ ProviderAddToken(token, Factory(fn, "none"))
  /\ done' = Ret("addToken", token)
  /\ emits' = <<>>
  /\ UNCHANGED <<sessionOps, sessionVars, configVars, facadeVars>>

removeToken(token) ==
  /\ opCount < MaxOps
  /\ opCount' = opCount + 1
  /\ ProviderRemoveToken(token)
  /\ done' = [Ret("removeToken", token) EXCEPT
                !.bool = MapDeleteResult(tokenToServerFactory, token)]
  /\ emits' = <<>>
  /\ UNCHANGED <<sessionOps, sessionVars, configVars, facadeVars>>

updateToken(token, fn) ==
  /\ opCount < MaxOps
  /\ opCount' = opCount + 1
  /\ ProviderUpdateToken(token, Factory(fn, "none"))
  /\ done' = [Ret("updateToken", token) EXCEPT
                !.bool = MapHas(tokenToServerFactory, token)]
  /\ emits' = <<>>
  /\ UNCHANGED <<sessionOps, sessionVars, configVars, facadeVars>>

RECURSIVE InvalidatedAll(_, _, _)
InvalidatedAll(insts, cache, keys) ==
  IF keys = {} THEN insts
  ELSE LET t == CHOOSE k \in keys : TRUE IN
       InvalidatedAll(Invalidated(insts, cache, t), cache, keys \ {t})

RECURSIVE PerturbedAll(_, _)
PerturbedAll(cs, keys) ==
  IF keys = {} THEN cs
  ELSE LET t == CHOOSE k \in keys : TRUE IN
       PerturbedAll(Perturbed(cs, t), keys \ {t})

clearAllTokens ==
  /\ opCount < MaxOps
  /\ opCount' = opCount + 1
  /\ tokenToServerFactory' = <<>>
  /\ LET cached == {t \in Tokens : activeServers[t] # NoServer}
         st == cleanupAllActiveServers(ProviderState, activeServers, cached)
     IN /\ instances' = InvalidatedAll(st.instances, activeServers, Tokens)
        /\ removals' = st.removals
  /\ calls' = PerturbedAll(calls, Tokens)
  /\ lastRet' = [t \in Tokens |-> NoServer]
  /\ done' = Ret("clearAllTokens", NoToken)
  /\ emits' = <<>>
  /\ UNCHANGED <<sessionOps, activeServers, factoryCalls, sessionVars, configVars, facadeVars>>

\* removeActiveServer after `await server.close()`; the close may have
\* resolved or rejected (the rejection is caught and logged)
RemoveAfterClose(i) ==
  /\ i \in 1..Len(removals)
  /\ \E closeOk \in BOOLEAN :
       /\ activeServers' = IF RemovalContinues(closeOk)
                           THEN [activeServers EXCEPT ![removals[i].token] = NoServer]
                           ELSE activeServers
       /\ done' = [Ret("removeActiveServer", removals[i].token) EXCEPT
                     !.server = removals[i].server, !.closeOk = closeOk]
  /\ removals' = RemoveAt(removals, i)
  /\ emits' = <<>>
  /\ UNCHANGED <<tokenToServerFactory, instances, calls, factoryCalls, lastRet,
                 sessionVars, configVars, facadeVars, countVars>>

\* getRegisteredTokens(), hasToken(token), getTokenCount()
getRegisteredTokens == MapKeys(tokenToServerFactory)

hasToken(token) == MapHas(tokenToServerFactory, token)

getTokenCount == Len(tokenToServerFactory)

\* getStats() of the provider
getStats ==
  [registeredTokens |-> Len(tokenToServerFactory),
   activeServers |-> Cardinality({t \in Tokens : activeServers[t] # NoServer}),
   tokens |-> MapKeys(tokenToServerFactory)]

\* the AuthInfo verifyAccessToken returns; clientId is `client-${token}`
AuthInfo(token) == [token |-> token, clientId |-> <<"client-", token>>, scopes |-> <<>>]

\* (variant: the verifier consults the instance cache instead of the registry)
verifyAccessTokenThrows_Cache(token) == activeServers[token] = NoServer

\* a variant that keeps a token valid while a session created with it lives
verifyAccessTokenThrows_Session(token) ==
  /\ ~MapHas(tokenToServerFactory, token)
  /\ \A sid \in DOMAIN sessions : transports[sid].token # token

verifyAccessTokenThrows(token) == ~MapHas(tokenToServerFactory, token)

verifyAccessToken(token) ==
  /\ opCount < MaxOps
  /\ opCount' = opCount + 1
  /\ done' = IF verifyAccessTokenThrows(token)
             THEN [Ret("verifyAccessToken", token) EXCEPT !.error = ErrInvalidToken]
             ELSE [Ret("verifyAccessToken", token) EXCEPT !.auth = AuthInfo(token)]
  /\ emits' = <<>>
  /\ UNCHANGED <<sessionOps, providerVars, sessionVars, configVars, facadeVars>>

\* (variant: the factory is invoked without the check that there is one)
createServerForTokenStart_NoCheck(token) ==
  LET existingServer == activeServers[token]
      factory == MapGet(tokenToServerFactory, token)
  IN IF existingServer # NoServer
     THEN [hit |-> TRUE, server |-> existingServer, error |-> "", factory |-> NoFactory]
     ELSE [hit |-> FALSE, server |-> NoServer, error |-> "", factory |-> factory]

\* createServerForToken(token), up to its first await.
\* Outcome: [hit, server, error, factory]
createServerForTokenStart(token) ==
  LET existingServer == activeServers[token]
      factory == MapGet(tokenToServerFactory, token)
  IN IF existingServer # NoServer
     THEN [hit |-> TRUE, server |-> existingServer, error |-> "", factory |-> NoFactory]
     ELSE IF factory = NoFactory
     THEN [hit |-> FALSE, server |-> NoServer, error |-> ErrNoFactory, factory |-> NoFactory]
     ELSE [hit |-> FALSE, server |-> NoServer, error |-> "", factory |-> factory]

\* a call suspended at an await; `kind` is "resolve" for a direct
\* createServerForToken call and "session" for a createSession call
Suspended(kind, pc, token, factory, server) ==
  [kind |-> kind, pc |-> pc, token |-> token, factory |-> factory, server |-> server,
   prev |-> IF token = NoToken THEN NoServer ELSE lastRet[token],
   clean |-> TRUE, stale |-> FALSE]

createServerForToken(token) ==
  /\ opCount < MaxOps
  /\ opCount' = opCount + 1
  /\ LET r == createServerForTokenStart(token) IN
     IF r.hit
     THEN /\ done' = [Ret("createServerForToken", token) EXCEPT
                        !.server = r.server, !.hit = TRUE, !.prev = lastRet[token]]
          /\ lastRet' = [lastRet EXCEPT ![token] = r.server]
          /\ UNCHANGED <<calls, factoryCalls>>
     ELSE IF r.error # ""
     THEN /\ done' = [Ret("createServerForToken", token) EXCEPT
                        !.error = r.error, !.prev = lastRet[token]]
          /\ UNCHANGED <<calls, factoryCalls, lastRet>>
     ELSE /\ calls' = Append(calls, Suspended("resolve", "awaitFactory", token, r.factory, NoServer))
          /\ factoryCalls' = [factoryCalls EXCEPT ![token] = @ + 1]
          /\ done' = Idle
          /\ UNCHANGED lastRet
  /\ emits' = <<>>
  /\ UNCHANGED <<sessionOps, tokenToServerFactory, activeServers, instances, removals,
                 sessionVars, configVars, facadeVars>>

\* the instance a factory invocation constructs
NewInstance(c) ==
  [token |-> c.token, factory |-> c.factory.fn, name |-> FactoryServerName(c.factory.fn),
   closeCalls |-> 0, closedBy |-> {}, invalidated |-> FALSE, superseded |-> c.stale]

\* serverInfo.name || 'unnamed-server'
ServerNameOr(name) == IF name = "" THEN "unnamed-server" ELSE name

\* serverInfo.version || '1.0.0'
ServerVersionOr(version) == IF version = "" THEN "1.0.0" ELSE version

\* (variant: a wrapper that emits nothing)
WrappedFactoryEmits_Silent(c) == <<>>

\* what the facade wrapper around a user factory emits once the user factory
\* returned its server (wrappedFactory of addToken / of updateToken)
WrappedFactoryEmits(c) ==
  IF c.factory.wrap = "addToken"
  THEN <<[Event("serverRegistered", c.token, 0,
                ServerNameOr(FactoryServerName(c.factory.fn)), FALSE)
            EXCEPT !.serverVersion = ServerVersionOr(FactoryServerVersion(c.factory.fn))]>>
  ELSE IF c.factory.wrap = "updateToken"
  THEN <<Event("serverUpdated", c.token, 0,
               ServerNameOr(FactoryServerName(c.factory.fn)), FALSE)>>
  ELSE <<>>

\* (variant: one cache slot shared by all tokens)
StoreServer_Shared(cache, token, server) == [t \in DOMAIN cache |-> server]

\* the cache after `await factory()` returned `server` to the call for `token`
StoreServer(cache, token, server) == [cache EXCEPT ![token] = server]

\* (variant: the failed construction is left in the cache)
StoreNothing_Poisoned(cache, token) == [cache EXCEPT ![token] = Len(instances) + 1]

\* the cache after `await factory()` threw
StoreNothing(cache, token) == cache

\* `await factory()` resolves: activeServers.set(token, server); return server
FactoryResolved(i) ==
  /\ i \in 1..Len(calls)
  /\ calls[i].pc = "awaitFactory"
  /\ Len(instances) < MaxServers
  /\ LET c == calls[i]
         server == Len(instances) + 1
     IN /\ instances' = Append(instances, NewInstance(c))
        /\ activeServers' = StoreServer(activeServers, c.token, server)
        /\ lastRet' = [lastRet EXCEPT ![c.token] = server]
        /\ emits' = WrappedFactoryEmits(c)
        /\ done' = [Ret("createServerForToken", c.token) EXCEPT
                      !.server = server, !.prev = c.prev, !.clean = c.clean]
        /\ calls' = IF c.kind = "resolve"
                    THEN RemoveAt(calls, i)
                    ELSE [calls EXCEPT ![i].pc = "awaitConnect", ![i].server = server]
  /\ UNCHANGED <<tokenToServerFactory, removals, factoryCalls, sessionVars,
                 configVars, facadeVars, countVars>>

\* `await factory()` rejects: the error propagates to the caller
FactoryRejected(i) ==
  /\ i \in 1..Len(calls)
  /\ calls[i].pc = "awaitFactory"
  /\ LET c == calls[i] IN
       /\ activeServers' = StoreNothing(activeServers, c.token)
       /\ done' = [Ret(IF c.kind = "resolve" THEN "createServerForToken" ELSE "createSession",
                       c.token) EXCEPT
                     !.error = ErrFactory, !.prev = c.prev, !.clean = c.clean]
       /\ calls' = RemoveAt(calls, i)
  /\ emits' = <<>>
  /\ UNCHANGED <<tokenToServerFactory, instances, removals, factoryCalls, lastRet,
                 sessionVars, configVars, facadeVars, countVars>>

\* ----------------------------------------------------------- SessionManager
\* Map.set / Map.delete on a table keyed by session id
SessionsSet(table, sid, info) ==
  [s \in DOMAIN table \cup {sid} |-> IF s = sid THEN info ELSE table[s]]

SessionsDelete(table, sid) == [s \in DOMAIN table \ {sid} |-> table[s]]

getSessionCount == Cardinality(DOMAIN sessions)

\* (variant: the server of a session is looked up in the instance cache)
getServerForSession_Cache(sid) ==
  IF sid \in DOMAIN sessions
  THEN IF transports[sid].token = NoToken THEN sessions[sid].server
       ELSE activeServers[transports[sid].token]
  ELSE NoServer

getServerForSession(sid) ==
  IF sid \in DOMAIN sessions THEN sessions[sid].server ELSE NoServer

\* new SessionManager(defaultServer, bearerTokenProvider) throws
SessionManagerThrows(server, provider) == server = NoServer /\ ~provider

\* a SessionManager exists
HasManager == ~SessionManagerThrows(defaultServer, hasProvider)

\* (variant: the default server is preferred to the provider when there is one)
UsesProvider_DefaultFirst(token) ==
  token # NoToken /\ hasProvider /\ defaultServer = NoServer

\* `if (token && this.bearerTokenProvider)`: the session gets a per-token server
UsesProvider(token) == token # NoToken /\ hasProvider

\* createSession(token), up to its first await
createSession(token) ==
  /\ HasManager
  /\ sessionOps < MaxSessionOps
  /\ Len(transports) + Cardinality({i \in 1..Len(calls) : calls[i].kind = "session"})
       < MaxTransports
  /\ sessionOps' = sessionOps + 1
  /\ IF UsesProvider(token)
     THEN IF verifyAccessTokenThrows(token)
          THEN /\ done' = [Ret("createSession", token) EXCEPT !.error = ErrInvalidToken]
               /\ UNCHANGED calls
          ELSE /\ calls' = Append(calls, Suspended("session", "awaitVerify", token,
                                                   NoFactory, NoServer))
               /\ done' = Idle
     ELSE IF defaultServer # NoServer
     THEN /\ calls' = Append(calls, Suspended("session", "awaitConnect", token,
                                              NoFactory, defaultServer))
          /\ done' = Idle
     ELSE /\ done' = [Ret("createSession", token) EXCEPT !.error = ErrNoServer]
          /\ UNCHANGED calls
  /\ emits' = <<>>
  /\ UNCHANGED <<opCount, tokenToServerFactory, activeServers, instances, removals,
                 factoryCalls, lastRet, sessionVars, configVars, facadeVars>>

\* createSession after `await verifyAccessToken(token)`: it calls
\* createServerForToken(token, authInfo)
SessionResolve(i) ==
  /\ i \in 1..Len(calls)
  /\ calls[i].pc = "awaitVerify"
  /\ LET c == calls[i]
         r == createServerForTokenStart(c.token)
     IN IF r.hit
        THEN /\ calls' = [calls EXCEPT ![i].pc = "awaitConnect", ![i].server = r.server]
             /\ done' = [Ret("createServerForToken", c.token) EXCEPT
                           !.server = r.server, !.hit = TRUE, !.prev = lastRet[c.token]]
             /\ lastRet' = [lastRet EXCEPT ![c.token] = r.server]
             /\ UNCHANGED factoryCalls
        ELSE IF r.error # ""
        THEN /\ calls' = RemoveAt(calls, i)
             /\ done' = [Ret("createSession", c.token) EXCEPT !.error = r.error]
             /\ UNCHANGED <<factoryCalls, lastRet>>
        ELSE /\ calls' = [calls EXCEPT ![i] =
                            [Suspended("session", "awaitFactory", c.token, r.factory, NoServer)
                               EXCEPT !.prev = lastRet[c.token]]]
             /\ factoryCalls' = [factoryCalls EXCEPT ![c.token] = @ + 1]
             /\ done' = Idle
             /\ UNCHANGED lastRet
  /\ emits' = <<>>
  /\ UNCHANGED <<tokenToServerFactory, activeServers, instances, removals,
                 sessionVars, configVars, facadeVars, countVars>>

\* createSession after `await server.connect(transport)`: return transport
Connected(i) ==
  /\ i \in 1..Len(calls)
  /\ calls[i].pc = "awaitConnect"
  /\ LET c == calls[i] IN
       /\ transports' = Append(transports,
                               [token |-> c.token, server |-> c.server, sessionId |-> 0])
       /\ done' = [Ret("createSession", c.token) EXCEPT
                     !.sid = Len(transports) + 1, !.server = c.server]
       /\ calls' = RemoveAt(calls, i)
  /\ emits' = <<>>
  /\ UNCHANGED <<tokenToServerFactory, activeServers, instances, removals,
                 factoryCalls, lastRet, sessions, destroys, sweeps,
                 defaultCloseCalls, emitted, configVars, facadeVars, countVars>>

\* the SessionInfo the facade records for a session it hears of
UnknownSessionInfo == [token |-> "unknown", serverName |-> "unknown"]

\* onsessioninitialized(sessionId): the transport handled the initialize
\* request; the generated session id of transport t is t.  The facade's
\* 'sessionCreated' listener runs inside the emit.
SessionInitialized(t) ==
  /\ t \in 1..Len(transports)
  /\ transports[t].sessionId = 0
  /\ transports' = [transports EXCEPT ![t].sessionId = t]
  /\ sessions' = SessionsSet(sessions, t, [transport |-> t, server |-> transports[t].server])
  /\ emitted' = Append(emitted, [name |-> "sessionCreated", sid |-> t])
  /\ sweeps' = [j \in 1..Len(sweeps) |-> [sweeps[j] EXCEPT !.dirty = TRUE]]
  /\ IF listening
     THEN /\ activeSessions' = SessionsSet(activeSessions, t, UnknownSessionInfo)
          /\ emits' = <<Event("sessionCreated", UnknownSessionInfo.token, t,
                              UnknownSessionInfo.serverName, FALSE)>>
     ELSE /\ emits' = <<>>
          /\ UNCHANGED activeSessions
  /\ done' = Idle
  /\ UNCHANGED <<providerVars, destroys, defaultCloseCalls, configVars,
                 app, startPc, serverInfo, listening, countVars>>

\* (variant: the error handler of a transport emits nothing)
onerrorEmits_Never(sessionId) == FALSE

\* `if (transport.sessionId)` of transport.onerror (0: no session id yet)
onerrorEmits(sessionId) == sessionId # 0

\* transport.onerror(error) of transport t: the SessionManager emits
\* transportError(sessionId, error) and the facade's 'transportError' listener,
\* running inside the emit, emits it again
TransportError(t, error) ==
  /\ t \in 1..Len(transports)
  /\ IF onerrorEmits(transports[t].sessionId)
     THEN /\ done' = [Ret("transportError", NoToken) EXCEPT
                        !.sid = transports[t].sessionId, !.error = error, !.bool = TRUE]
          /\ emits' = IF listening
                      THEN <<[Event("transportError", NoToken, transports[t].sessionId,
                                    "", FALSE) EXCEPT !.error = error]>>
                      ELSE <<>>
     ELSE /\ done' = [Ret("transportError", NoToken) EXCEPT !.error = error]
          /\ emits' = <<>>
  /\ UNCHANGED <<providerVars, sessionVars, configVars, facadeVars, countVars>>

\* (variant: destroySession closes the server of every session)
destroySessionCloses_Always(server) == TRUE

\* destroySession closes the server of the session
destroySessionCloses(server) == server # defaultServer

\* (variant: destroySession reports success whatever Map.delete returned)
DestroyResult_AlwaysTrue(table, sid) == TRUE

\* what destroySession returns: the result of Map.delete
DestroyResult(table, sid) == sid \in DOMAIN table

\* (variant: no try/catch around close(), a rejection aborts destroySession)
DestroyContinues_NoCatch(closeOk) == closeOk

\* destroySession goes on to delete the session when close() settled with closeOk
DestroyContinues(closeOk) == TRUE

\* st = [instances, destroys, sessions, emitted, activeSessions, emits]:
\* what a destroySession call reads and writes
SessionState ==
  [instances |-> instances, destroys |-> destroys, sessions |-> sessions,
   emitted |-> emitted, activeSessions |-> activeSessions, emits |-> <<>>]

\* `if (deleted) this.emit('sessionDestroyed', sessionId)`; the facade's
\* 'sessionDestroyed' listener runs inside the emit
EmitDestroyed(st, sid, deleted) ==
  IF ~deleted THEN st
  ELSE LET heard == listening /\ sid \in DOMAIN st.activeSessions IN
       [st EXCEPT
          !.emitted = Append(@, [name |-> "sessionDestroyed", sid |-> sid]),
          !.activeSessions = IF heard THEN SessionsDelete(@, sid) ELSE @,
          !.emits = IF heard
                    THEN Append(@, Event("sessionDestroyed", st.activeSessions[sid].token,
                                         sid, st.activeSessions[sid].serverName, FALSE))
                    ELSE @]

\* other destroySession calls for sid are suspended: the calls overlap
Overlapped(ds, sid) ==
  [i \in 1..Len(ds) |-> IF ds[i].sid = sid THEN [ds[i] EXCEPT !.clean = FALSE] ELSE ds[i]]

\* destroySession(sid) up to its await, or to its end when it does not await;
\* `sweep` is the destroyAllSessions call it belongs to (0: a direct call)
destroySessionStart(st, sid, sweep) ==
  IF sid \notin DOMAIN st.sessions THEN st
  ELSE IF destroySessionCloses(st.sessions[sid].server)
  THEN [st EXCEPT
          !.instances = CloseCalled(@, st.sessions[sid].server, "session"),
          !.destroys = Append(Overlapped(@, sid),
                              [sid |-> sid, sweep |-> sweep,
                               clean |-> \A i \in 1..Len(st.destroys) :
                                            st.destroys[i].sid # sid])]
  ELSE EmitDestroyed([st EXCEPT !.sessions = SessionsDelete(@, sid)],
                     sid, DestroyResult(st.sessions, sid))

\* destroySession(sid) called directly
destroySession(sid) ==
  /\ HasManager
  /\ sessionOps < MaxSessionOps
  /\ sessionOps' = sessionOps + 1
  /\ LET st == destroySessionStart(SessionState, sid, 0) IN
       /\ instances' = st.instances
       /\ destroys' = st.destroys
       /\ sessions' = st.sessions
       /\ emitted' = st.emitted
       /\ activeSessions' = st.activeSessions
       /\ emits' = st.emits
       /\ done' = IF Len(st.destroys) > Len(destroys)
                  THEN Idle
                  ELSE [Ret("destroySession", NoToken) EXCEPT
                          !.sid = sid,
                          !.bool = IF sid \notin DOMAIN sessions
                                   THEN FALSE
                                   ELSE DestroyResult(sessions, sid)]
  /\ UNCHANGED <<opCount, tokenToServerFactory, activeServers, calls, removals, factoryCalls,
                 lastRet, transports, sweeps, defaultCloseCalls, configVars,
                 app, startPc, serverInfo, listening>>

\* destroySession after `await sessionInfo.server.close()`
DestroyAfterClose(i) ==
  /\ i \in 1..Len(destroys)
  /\ \E closeOk \in BOOLEAN :
       LET d == destroys[i]
           goesOn == DestroyContinues(closeOk)
           deleted == goesOn /\ DestroyResult(sessions, d.sid)
           st == EmitDestroyed(
                   [SessionState EXCEPT
                      !.sessions = IF goesOn THEN SessionsDelete(@, d.sid) ELSE @],
                   d.sid, deleted)
       IN /\ sessions' = st.sessions
          /\ emitted' = st.emitted
          /\ activeSessions' = st.activeSessions
          /\ emits' = st.emits
          /\ destroys' = RemoveAt(destroys, i)
          /\ sweeps' = [j \in 1..Len(sweeps) |->
                          IF sweeps[j].id = d.sweep /\ ~closeOk
                          THEN [sweeps[j] EXCEPT !.closeFailed = TRUE] ELSE sweeps[j]]
          /\ done' = IF d.sweep = 0
                     THEN [Ret("destroySession", NoToken) EXCEPT
                             !.sid = d.sid, !.bool = deleted, !.clean = d.clean,
                             !.closeOk = closeOk]
                     ELSE Idle
  /\ UNCHANGED <<providerVars, transports, defaultCloseCalls, configVars,
                 app, startPc, serverInfo, listening, countVars>>

\* sessionIds.map((id) => this.destroySession(id)): destroySession for every
\* key of the table in insertion order, each up to its await
RECURSIVE destroyEach(_, _, _)
destroyEach(st, ids, sweep) ==
  IF ids = {} THEN st
  ELSE LET sid == CHOOSE s \in ids : \A o \in ids : s <= o IN
       destroyEach(destroySessionStart(st, sid, sweep), ids \ {sid}, sweep)

Sweep(kind, id, ids) ==
  [kind |-> kind, id |-> id, ids |-> ids, dirty |-> FALSE, closeFailed |-> FALSE]

destroyAllSessions ==
  /\ HasManager
  /\ sessionOps < MaxSessionOps
  /\ sessionOps' = sessionOps + 1
  /\ LET sessionIds == DOMAIN sessions
         st == destroyEach(SessionState, sessionIds, sessionOps + 1)
     IN /\ instances' = st.instances
        /\ destroys' = st.destroys
        /\ sessions' = st.sessions
        /\ emitted' = st.emitted
        /\ activeSessions' = st.activeSessions
        /\ emits' = st.emits
        /\ sweeps' = Append(sweeps, Sweep("destroyAllSessions", sessionOps + 1, sessionIds))
  /\ done' = Idle
  /\ UNCHANGED <<opCount, tokenToServerFactory, activeServers, calls, removals, factoryCalls,
                 lastRet, transports, defaultCloseCalls, configVars,
                 app, startPc, serverInfo, listening>>

\* `await Promise.all(...)` of destroyAllSessions settles
DestroyAllSettled(j) ==
  /\ j \in 1..Len(sweeps)
  /\ sweeps[j].kind = "destroyAllSessions"
  /\ \A i \in 1..Len(destroys) : destroys[i].sweep # sweeps[j].id
  /\ done' = [Ret("destroyAllSessions", NoToken) EXCEPT
                !.ids = sweeps[j].ids, !.clean = ~sweeps[j].dirty,
                !.bool = sweeps[j].closeFailed]
  /\ sweeps' = RemoveAt(sweeps, j)
  /\ emits' = <<>>
  /\ UNCHANGED <<providerVars, transports, sessions, destroys, defaultCloseCalls,
                 emitted, configVars, facadeVars, countVars>>

\* ---------------------------------------------------------- FastifyMcpServer
\* the (defaultServer, bearerTokenProvider) the FastifyMcpServer constructor
\* gives its SessionManager: new SessionManager(options.server)
FastifyMcpServerManager(server, provider) == [server |-> server, provider |-> FALSE]

\* the same for the plugin FastifyMcpServerOptions declares: `server` optional,
\* authorization.bearerTokenProvider giving each bearer token its own server
DeclaredManager(server, provider) == [server |-> server, provider |-> provider]

\* shutdown(): destroyAllSessions() is called and not awaited, then
\* `await this.options.server.close()`, a TypeError when options.server is
\* undefined
shutdown ==
  /\ plugin
  /\ sessionOps < MaxSessionOps
  /\ sessionOps' = sessionOps + 1
  /\ LET sessionIds == DOMAIN sessions
         st == destroyEach(SessionState, sessionIds, sessionOps + 1)
     IN /\ instances' = st.instances
        /\ destroys' = st.destroys
        /\ sessions' = st.sessions
        /\ emitted' = st.emitted
        /\ activeSessions' = st.activeSessions
        /\ emits' = st.emits
        /\ IF defaultServer = NoServer
           THEN /\ sweeps' = Append(sweeps,
                                    Sweep("destroyAllSessions", sessionOps + 1, sessionIds))
                /\ done' = [Ret("shutdown", NoToken) EXCEPT
                              !.ids = sessionIds, !.error = ErrNoDefault]
                /\ UNCHANGED defaultCloseCalls
           ELSE /\ sweeps' = sweeps \o
                     << Sweep("destroyAllSessions", sessionOps + 1, sessionIds),
                        Sweep("shutdown", sessionOps + 1, sessionIds) >>
                /\ defaultCloseCalls' = defaultCloseCalls + 1
                /\ done' = Idle
  /\ UNCHANGED <<opCount, tokenToServerFactory, activeServers, calls, removals, factoryCalls,
                 lastRet, transports, configVars, app, startPc, serverInfo, listening>>

\* `await this.options.server.close()` settles
ShutdownSettled(j) ==
  /\ j \in 1..Len(sweeps)
  /\ sweeps[j].kind = "shutdown"
  /\ \E closeOk \in BOOLEAN :
       done' = [Ret("shutdown", NoToken) EXCEPT
                  !.ids = sweeps[j].ids, !.clean = ~sweeps[j].dirty,
                  !.error = IF closeOk THEN "" ELSE ErrClose]
  /\ sweeps' = RemoveAt(sweeps, j)
  /\ emits' = <<>>
  /\ UNCHANGED <<providerVars, transports, sessions, destroys, defaultCloseCalls,
                 emitted, configVars, facadeVars, countVars>>

\* -------------------------------------------------------- PerBearerMcpServer
\* PerBearerMcpServer.addToken(token, serverFactory)
PerBearerMcpServer_addToken(token, fn) ==
  /\ facade
  /\ opCount + sessionOps < MaxOps
  /\ opCount' = opCount + 1
  /\ ProviderAddToken(token, Factory(fn, "addToken"))
  /\ emits' = <<Event("tokenAdded", token, 0, "", FALSE)>>
  /\ done' = Ret("PerBearerMcpServer.addToken", token)
  /\ UNCHANGED <<sessionOps, sessionVars, configVars, facadeVars>>

\* the sessions removeToken finds for `token` in activeSessions
sessionsForToken(token) ==
  {sid \in DOMAIN activeSessions : activeSessions[sid].token = token}

\* (variant: serverRemoved is emitted only for a token with a cached instance)
RemovalEvents_IfCached(token, removed, hadActiveSessions) ==
  IF ~removed THEN <<>>
  ELSE (IF activeServers[token] # NoServer
        THEN <<Event("serverRemoved", token, 0, "unknown-server", hadActiveSessions)>>
        ELSE <<>>)
       \o <<Event("tokenRemoved", token, 0, "", FALSE)>>

\* (variant: tokenRemoved is emitted before serverRemoved)
RemovalEvents_TokenFirst(token, removed, hadActiveSessions) ==
  IF removed
  THEN <<Event("tokenRemoved", token, 0, "", FALSE),
         Event("serverRemoved", token, 0, "unknown-server", hadActiveSessions)>>
  ELSE <<>>

\* `if (removed) { emit('serverRemoved', {...}); emit('tokenRemoved', token) }`
RemovalEvents(token, removed, hadActiveSessions) ==
  IF removed
  THEN <<Event("serverRemoved", token, 0, "unknown-server", hadActiveSessions),
         Event("tokenRemoved", token, 0, "", FALSE)>>
  ELSE <<>>

\* (variant: the removal also drops the sessions that were created with the token)
PerBearerMcpServer_removeToken_Destroys(token) ==
  /\ facade
  /\ opCount + sessionOps < MaxOps
  /\ opCount' = opCount + 1
  /\ LET removed == MapHas(tokenToServerFactory, token)
         kept == {sid \in DOMAIN sessions : transports[sid].token # token}
     IN /\ ProviderRemoveToken(token)
        /\ emits' = <<>>
        /\ sessions' = [sid \in kept |-> sessions[sid]]
        /\ done' = [Ret("PerBearerMcpServer.removeToken", token) EXCEPT !.bool = removed]
  /\ UNCHANGED <<sessionOps, transports, destroys, sweeps, defaultCloseCalls,
                 emitted, configVars, facadeVars>>

\* PerBearerMcpServer.removeToken(token)
PerBearerMcpServer_removeToken(token) ==
  /\ facade
  /\ opCount + sessionOps < MaxOps
  /\ opCount' = opCount + 1
  /\ LET found == sessionsForToken(token)
         removed == MapDeleteResult(tokenToServerFactory, token)
     IN /\ ProviderRemoveToken(token)
        /\ emits' = RemovalEvents(token, removed, Cardinality(found) > 0)
        /\ done' = [Ret("PerBearerMcpServer.removeToken", token) EXCEPT !.bool = removed]
  /\ UNCHANGED <<sessionOps, sessionVars, configVars, facadeVars>>

\* PerBearerMcpServer.updateToken(token, serverFactory)
PerBearerMcpServer_updateToken(token, fn) ==
  /\ facade
  /\ opCount + sessionOps < MaxOps
  /\ opCount' = opCount + 1
  /\ LET updated == MapHas(tokenToServerFactory, token) IN
       /\ ProviderUpdateToken(token, Factory(fn, "updateToken"))
       /\ emits' = IF updated THEN <<Event("tokenUpdated", token, 0, "", FALSE)>> ELSE <<>>
       /\ done' = [Ret("PerBearerMcpServer.updateToken", token) EXCEPT !.bool = updated]
  /\ UNCHANGED <<sessionOps, sessionVars, configVars, facadeVars>>

\* (variant: start() never refuses)
startRefuses_Never == FALSE

\* `if (this.app) throw new Error('Server is already running')`
startRefuses == app

\* start(), up to `await this.app.register(...)`
PerBearerMcpServer_start ==
  /\ facade
  /\ opCount + sessionOps < MaxOps
  /\ opCount' = opCount + 1
  /\ IF startRefuses
     THEN /\ done' = [Ret("start", NoToken) EXCEPT !.error = ErrRunning]
          /\ UNCHANGED <<app, startPc>>
     ELSE /\ app' = TRUE
          /\ startPc' = "awaitRegister"
          /\ done' = Idle
  /\ emits' = <<>>
  /\ UNCHANGED <<sessionOps, providerVars, sessionVars, configVars, serverInfo, listening,
                 activeSessions>>

\* `await this.app.register(FastifyMcpStreamableHttp, {endpoint, authorization})`
\* settles: the plugin constructed its FastifyMcpServer, whose SessionManager
\* gets manager.server and manager.provider; on success start() goes on to
\* setupEventListeners() and `await this.app.listen(...)`.  The SessionManager
\* is a new one: its table is empty, and what a SessionManager of an earlier
\* start still had in progress is followed no further.
RegisterSettled(manager) ==
  /\ startPc = "awaitRegister"
  /\ IF SessionManagerThrows(manager.server, manager.provider)
     THEN /\ startPc' = "idle"
          /\ done' = [Ret("start", NoToken) EXCEPT !.error = ErrNoManager]
          /\ UNCHANGED <<configVars, listening, calls, sessions, destroys, sweeps>>
     ELSE /\ defaultServer' = manager.server
          /\ hasProvider' = manager.provider
          /\ plugin' = TRUE
          /\ UNCHANGED facade
          /\ listening' = TRUE
          /\ startPc' = "awaitListen"
          /\ done' = Idle
          /\ calls' = SelectSeq(calls, LAMBDA c : c.kind # "session")
          /\ sessions' = [s \in {} |-> [transport |-> 0, server |-> NoServer]]
          /\ destroys' = <<>>
          /\ sweeps' = <<>>
  /\ emits' = <<>>
  /\ UNCHANGED <<tokenToServerFactory, activeServers, instances, removals, factoryCalls,
                 lastRet, transports, defaultCloseCalls, emitted, app, serverInfo,
                 activeSessions, countVars>>

\* `await this.app.listen(...)` settles
ListenSettled ==
  /\ startPc = "awaitListen"
  /\ startPc' = "idle"
  /\ \E listenOk \in BOOLEAN :
       IF listenOk
       THEN /\ serverInfo' = TRUE
            /\ emits' = <<Event("started", NoToken, 0, "", FALSE)>>
            /\ done' = Ret("start", NoToken)
       ELSE /\ emits' = <<>>
            /\ done' = [Ret("start", NoToken) EXCEPT !.error = ErrListen]
            /\ UNCHANGED serverInfo
  /\ UNCHANGED <<providerVars, sessionVars, configVars, app, listening,
                 activeSessions, countVars>>

\* stop(), up to `await mcpDecorator.shutdown()`.  getMcpDecorator throws when
\* the plugin was never registered on this.app.  The shutdown of the plugin
\* destroys the sessions as destroyAllSessions does.  A stop() that finds the
\* server running is followed when no other start() or stop() is in progress.
PerBearerMcpServer_stop ==
  /\ facade
  /\ opCount + sessionOps < MaxOps
  /\ opCount' = opCount + 1
  /\ IF ~app
     THEN /\ done' = [Ret("stop", NoToken) EXCEPT !.error = ErrNotRunning]
          /\ emits' = <<>>
          /\ UNCHANGED <<startPc, instances, destroys, sessions, emitted,
                         activeSessions, sweeps>>
     ELSE /\ startPc = "idle"
          /\ IF ~plugin
             THEN /\ done' = [Ret("stop", NoToken) EXCEPT !.error = ErrNoDecorator]
                  /\ emits' = <<>>
                  /\ UNCHANGED <<startPc, instances, destroys, sessions, emitted,
                                 activeSessions, sweeps>>
             ELSE LET sessionIds == DOMAIN sessions
                      id == MaxSessionOps + opCount + 1
                      st == destroyEach(SessionState, sessionIds, id)
                  IN /\ instances' = st.instances
                     /\ destroys' = st.destroys
                     /\ sessions' = st.sessions
                     /\ emitted' = st.emitted
                     /\ activeSessions' = st.activeSessions
                     /\ emits' = st.emits
                     /\ sweeps' = Append(sweeps, Sweep("destroyAllSessions", id, sessionIds))
                     /\ startPc' = "awaitShutdown"
                     /\ done' = Idle
  /\ UNCHANGED <<sessionOps, tokenToServerFactory, activeServers, calls, removals,
                 factoryCalls, lastRet, transports, defaultCloseCalls, configVars,
                 app, serverInfo, listening>>

\* `await mcpDecorator.shutdown()` settles; on success stop() goes on to
\* `await this.app.close()`
StopShutdownSettled ==
  /\ startPc = "awaitShutdown"
  /\ \E shutdownOk \in BOOLEAN :
       IF shutdownOk
       THEN /\ startPc' = "awaitClose"
            /\ done' = Idle
       ELSE /\ startPc' = "idle"
            /\ done' = [Ret("stop", NoToken) EXCEPT !.error = ErrShutdown]
  /\ emits' = <<>>
  /\ UNCHANGED <<providerVars, sessionVars, configVars, app, serverInfo, listening,
                 activeSessions, countVars>>

\* `await this.app.close()` settles; on success app and serverInfo become
\* undefined, activeSessions is cleared and 'stopped' is emitted
StopCloseSettled ==
  /\ startPc = "awaitClose"
  /\ startPc' = "idle"
  /\ \E closeOk \in BOOLEAN :
       IF closeOk
       THEN /\ app' = FALSE
            /\ serverInfo' = FALSE
            /\ activeSessions' = [s \in {} |-> UnknownSessionInfo]
            /\ plugin' = FALSE
            /\ emits' = <<Event("stopped", NoToken, 0, "", FALSE)>>
            /\ done' = Ret("stop", NoToken)
       ELSE /\ emits' = <<>>
            /\ done' = [Ret("stop", NoToken) EXCEPT !.error = ErrClose]
            /\ UNCHANGED <<app, serverInfo, activeSessions, plugin>>
  /\ UNCHANGED <<providerVars, sessionVars, defaultServer, hasProvider, facade,
                 listening, countVars>>

\* getActiveSessions(): the ids of the sessions the facade holds
getActiveSessions == DOMAIN activeSessions

\* isRunning(), getServerInfo() (FALSE: null)
isRunning == app

getServerInfo == serverInfo

\* the calls of one behaviour of the facade, requests of its clients included,
\* are bounded by MaxOps
RequestsLeft == opCount + sessionOps < MaxOps

\* an initialize request with bearer token `token` reaches the listening
\* server: the POST handler asks the SessionManager for a session
PostInitialize(token) ==
  /\ serverInfo
  /\ RequestsLeft
  /\ createSession(token)

\* a DELETE request for session sid reaches the listening server
DeleteSession(sid) ==
  /\ serverInfo
  /\ RequestsLeft
  /\ destroySession(sid)

\* SessionManager.getSession(sessionId): the transport of the session (0: undefined)
getSession(sid) ==
  IF sid \in DOMAIN sessions THEN sessions[sid].transport ELSE 0

ErrSessionNotFound == "Session not found"

\* a request with bearer token `token` that names session sid reaches the
\* listening server: the bearer hook verifies the token with the provider, then
\* the handler looks the session up by its id and hands the request to its
\* transport
HandleRequest(token, sid) ==
  /\ serverInfo
  /\ done' = IF verifyAccessTokenThrows(token)
             THEN [Ret("request", token) EXCEPT !.sid = sid, !.error = ErrInvalidToken]
             ELSE IF getSession(sid) = 0
             THEN [Ret("request", token) EXCEPT !.sid = sid, !.error = ErrSessionNotFound]
             ELSE [Ret("request", token) EXCEPT
                     !.sid = sid, !.bool = TRUE, !.server = getServerForSession(sid)]
  /\ emits' = <<>>
  /\ UNCHANGED <<providerVars, sessionVars, configVars, facadeVars, countVars>>

\* -------------------------------------------------------- specification
\* everything but the configuration, after construction
InitState ==
  /\ activeServers = [t \in Tokens |-> NoServer]
  /\ instances = <<>>
  /\ calls = <<>>
  /\ removals = <<>>
  /\ factoryCalls = [t \in Tokens |-> 0]
  /\ transports = <<>>
  /\ sessions = [s \in {} |-> [transport |-> 0, server |-> NoServer]]
  /\ destroys = <<>>
  /\ sweeps = <<>>
  /\ defaultCloseCalls = 0
  /\ emitted = <<>>
  /\ app = FALSE
  /\ startPc = "idle"
  /\ serverInfo = FALSE
  /\ listening = FALSE
  /\ activeSessions = [s \in {} |-> UnknownSessionInfo]
  /\ emits = <<>>
  /\ lastRet = [t \in Tokens |-> NoServer]
  /\ opCount = 0
  /\ sessionOps = 0
  /\ done = Idle

\* a TokenBasedServerProvider and a SessionManager constructed directly, or
\* the SessionManager of a FastifyMcpServer
InitManager ==
  /\ InitState
  /\ tokenToServerFactory \in InitialMappings
  /\ facade = FALSE
  /\ plugin \in BOOLEAN
  /\ defaultServer \in {Default, NoServer}
  /\ hasProvider \in BOOLEAN
  /\ ~SessionManagerThrows(defaultServer, hasProvider)
  /\ plugin => /\ defaultServer = FastifyMcpServerManager(defaultServer, hasProvider).server
               /\ hasProvider = FastifyMcpServerManager(defaultServer, hasProvider).provider

\* new PerBearerMcpServer(): an empty provider, no app, no SessionManager yet
InitFacade ==
  /\ InitState
  /\ tokenToServerFactory = <<>>
  /\ facade = TRUE
  /\ plugin = FALSE
  /\ defaultServer = NoServer
  /\ hasProvider = FALSE

Init == InitManager \/ InitFacade

Next ==
  \/ \E t \in Tokens, f \in Factories : addToken(t, f)
  \/ \E t \in Tokens : removeToken(t)
  \/ \E t \in Tokens, f \in Factories : updateToken(t, f)
  \/ clearAllTokens
  \/ \E i \in 1..Len(removals) : RemoveAfterClose(i)
  \/ \E t \in Tokens : verifyAccessToken(t)
  \/ \E t \in Tokens : createServerForToken(t)
  \/ \E i \in 1..Len(calls) : FactoryResolved(i)
  \/ \E i \in 1..Len(calls) : FactoryRejected(i)
  \/ \E t \in Tokens \cup {NoToken} : createSession(t)
  \/ \E i \in 1..Len(calls) : SessionResolve(i)
  \/ \E i \in 1..Len(calls) : Connected(i)
  \/ \E t \in 1..Len(transports) : SessionInitialized(t)
  \/ \E sid \in 1..MaxTransports : destroySession(sid)
  \/ \E i \in 1..Len(destroys) : DestroyAfterClose(i)
  \/ destroyAllSessions
  \/ \E j \in 1..Len(sweeps) : DestroyAllSettled(j)
  \/ shutdown
  \/ \E j \in 1..Len(sweeps) : ShutdownSettled(j)
  \/ \E t \in Tokens, f \in Factories : PerBearerMcpServer_addToken(t, f)
  \/ \E t \in Tokens : PerBearerMcpServer_removeToken(t)
  \/ \E t \in Tokens, f \in Factories : PerBearerMcpServer_updateToken(t, f)
  \/ PerBearerMcpServer_start
  \/ RegisterSettled(FastifyMcpServerManager(NoServer, TRUE))
  \/ ListenSettled

Spec == Init /\ [][Next]_vars

\* The provider on its own: registry, cache and verifier under direct calls.
InitProvider == InitManager /\ ~plugin /\ hasProvider /\ defaultServer = NoServer

NextProvider ==
  \/ \E t \in Tokens, f \in Factories : addToken(t, f)
  \/ \E t \in Tokens : removeToken(t)
  \/ \E t \in Tokens, f \in Factories : updateToken(t, f)
  \/ clearAllTokens
  \/ \E i \in 1..Len(removals) : RemoveAfterClose(i)
  \/ \E t \in Tokens : verifyAccessToken(t)
  \/ \E t \in Tokens : createServerForToken(t)
  \/ \E i \in 1..Len(calls) : FactoryResolved(i)
  \/ \E i \in 1..Len(calls) : FactoryRejected(i)

SpecProvider == InitProvider /\ [][NextProvider]_vars

\* The session table over a provider whose registrations do not change.
NextSessions ==
  \/ \E t \in Tokens \cup {NoToken} : createSession(t)
  \/ \E i \in 1..Len(calls) : SessionResolve(i)
  \/ \E i \in 1..Len(calls) : FactoryResolved(i)
  \/ \E i \in 1..Len(calls) : FactoryRejected(i)
  \/ \E i \in 1..Len(calls) : Connected(i)
  \/ \E t \in 1..Len(transports) : SessionInitialized(t)
  \/ \E sid \in 1..MaxTransports : destroySession(sid)
  \/ \E i \in 1..Len(destroys) : DestroyAfterClose(i)
  \/ destroyAllSessions
  \/ \E j \in 1..Len(sweeps) : DestroyAllSettled(j)
  \/ shutdown
  \/ \E j \in 1..Len(sweeps) : ShutdownSettled(j)

SpecSessions == InitManager /\ [][NextSessions]_vars

\* The PerBearerMcpServer facade over the plugin FastifyMcpServerOptions
\* declares, serving the requests of its clients.
NextFacade ==
  \/ \E t \in Tokens, f \in Factories : PerBearerMcpServer_addToken(t, f)
  \/ \E t \in Tokens : PerBearerMcpServer_removeToken(t)
  \/ \E t \in Tokens, f \in Factories : PerBearerMcpServer_updateToken(t, f)
  \/ PerBearerMcpServer_start
  \/ RegisterSettled(DeclaredManager(NoServer, TRUE))
  \/ ListenSettled
  \/ \E t \in Tokens : PostInitialize(t)
  \/ \E i \in 1..Len(calls) : SessionResolve(i)
  \/ \E i \in 1..Len(calls) : FactoryResolved(i)
  \/ \E i \in 1..Len(calls) : FactoryRejected(i)
  \/ \E i \in 1..Len(calls) : Connected(i)
  \/ \E t \in 1..Len(transports) : SessionInitialized(t)
  \/ \E sid \in 1..MaxTransports : DeleteSession(sid)
  \/ \E i \in 1..Len(destroys) : DestroyAfterClose(i)
  \/ \E i \in 1..Len(removals) : RemoveAfterClose(i)
  \/ \E t \in Tokens, sid \in 1..MaxTransports : HandleRequest(t, sid)

SpecFacade == InitFacade /\ [][NextFacade]_vars

\* The facade with its listener lifecycle: start() and stop().
NextLifecycle ==
  \/ \E t \in Tokens, f \in Factories : PerBearerMcpServer_addToken(t, f)
  \/ \E t \in Tokens : PerBearerMcpServer_removeToken(t)
  \/ \E t \in Tokens, f \in Factories : PerBearerMcpServer_updateToken(t, f)
  \/ PerBearerMcpServer_start
  \/ RegisterSettled(FastifyMcpServerManager(NoServer, TRUE))
  \/ RegisterSettled(DeclaredManager(NoServer, TRUE))
  \/ ListenSettled
  \/ \E t \in Tokens : PostInitialize(t)
  \/ \E i \in 1..Len(calls) : SessionResolve(i)
  \/ \E i \in 1..Len(calls) : FactoryResolved(i)
  \/ \E i \in 1..Len(calls) : FactoryRejected(i)
  \/ \E i \in 1..Len(calls) : Connected(i)
  \/ \E t \in 1..Len(transports) : SessionInitialized(t)
  \/ \E sid \in 1..MaxTransports : DeleteSession(sid)
  \/ \E i \in 1..Len(destroys) : DestroyAfterClose(i)
  \/ \E i \in 1..Len(removals) : RemoveAfterClose(i)
  \/ \E t \in Tokens, sid \in 1..MaxTransports : HandleRequest(t, sid)
  \/ PerBearerMcpServer_stop
  \/ StopShutdownSettled
  \/ StopCloseSettled
  \/ \E j \in 1..Len(sweeps) : DestroyAllSettled(j)

SpecLifecycle == InitFacade /\ [][NextLifecycle]_vars

\* The facade's token calls and the resolves of its tokenProvider: the
\* factories the provider invokes are the wrappers addToken and updateToken
\* of the facade installed.
NextEvents ==
  \/ \E t \in Tokens, f \in Factories : PerBearerMcpServer_addToken(t, f)
  \/ \E t \in Tokens : PerBearerMcpServer_removeToken(t)
  \/ \E t \in Tokens, f \in Factories : PerBearerMcpServer_updateToken(t, f)
  \/ \E i \in 1..Len(removals) : RemoveAfterClose(i)
  \/ \E t \in Tokens : createServerForToken(t)
  \/ \E i \in 1..Len(calls) : FactoryResolved(i)
  \/ \E i \in 1..Len(calls) : FactoryRejected(i)

SpecEvents == InitFacade /\ [][NextEvents]_vars

\* The session table over a provider whose registrations change: sessions
\* are created and destroyed while tokens are removed and updated.
NextTeardown ==
  \/ \E t \in Tokens : RequestsLeft /\ createSession(t)
  \/ \E i \in 1..Len(calls) : SessionResolve(i)
  \/ \E i \in 1..Len(calls) : FactoryResolved(i)
  \/ \E i \in 1..Len(calls) : FactoryRejected(i)
  \/ \E i \in 1..Len(calls) : Connected(i)
  \/ \E t \in 1..Len(transports) : SessionInitialized(t)
  \/ \E sid \in 1..MaxTransports : RequestsLeft /\ destroySession(sid)
  \/ \E i \in 1..Len(destroys) : DestroyAfterClose(i)
  \/ RequestsLeft /\ destroyAllSessions
  \/ \E j \in 1..Len(sweeps) : DestroyAllSettled(j)
  \/ \E t \in Tokens : RequestsLeft /\ removeToken(t)
  \/ \E t \in Tokens, f \in Factories : RequestsLeft /\ updateToken(t, f)
  \/ \E i \in 1..Len(removals) : RemoveAfterClose(i)

\* a SessionManager over a provider, with no default server
InitTeardown ==
  /\ InitManager
  /\ hasProvider
  /\ defaultServer = NoServer

SpecTeardown == InitTeardown /\ [][NextTeardown]_vars

\* The facade serving its clients, whose transports report errors.
NextTransport ==
  \/ NextFacade
  \/ \E t \in 1..Len(transports), e \in TransportErrors : TransportError(t, e)

SpecTransport == InitFacade /\ [][NextTransport]_vars

\* The provider when every factory invoked for HungToken returns a promise
\* that never settles; the continuations of the other tokens' factories run
\* once their promises settled.
HungToken == "c1"

SettleOthers ==
  \E i \in 1..Len(calls) :
    calls[i].token # HungToken /\ (FactoryResolved(i) \/ FactoryRejected(i))

NextHung ==
  \/ \E t \in Tokens, f \in Factories : addToken(t, f)
  \/ \E t \in Tokens : removeToken(t)
  \/ \E t \in Tokens, f \in Factories : updateToken(t, f)
  \/ \E i \in 1..Len(removals) : RemoveAfterClose(i)
  \/ \E t \in Tokens : createServerForToken(t)
  \/ \E i \in 1..Len(calls) : calls[i].token # HungToken /\ FactoryResolved(i)
  \/ \E i \in 1..Len(calls) : calls[i].token # HungToken /\ FactoryRejected(i)

SpecHung == InitProvider /\ [][NextHung]_vars /\ WF_vars(SettleOthers)

\* ------------------------------------------------------------------ claims
SessionDestroyedEmitted(sid) ==
  \E k \in 1..Len(emitted) : emitted[k] = [name |-> "sessionDestroyed", sid |-> sid]

\* C1: for a registered token c, a createServerForToken(c) that follows an
\* earlier createServerForToken(c) with no addToken/updateToken/removeToken/
\* clearAllTokens since that call returned gives back the same instance and
\* is served from the cache (the factory is not invoked a second time).
C1_CacheIdentity ==
  ( /\ done.op = "createServerForToken"
    /\ MapHas(tokenToServerFactory, done.token)
    /\ done.prev # NoServer
    /\ done.clean )
    => (done.server = done.prev /\ done.hit)

\* C2: createServerForToken calls for the same token that overlap, with no
\* mutation of the token since they started, do not each invoke the factory:
\* at most one of them is awaiting a factory.
C2_SingleFlight ==
  \A t \in Tokens :
    Cardinality({i \in 1..Len(calls) :
                   calls[i].token = t /\ calls[i].pc = "awaitFactory" /\ calls[i].clean}) <= 1

\* C3: a createServerForToken(c) issued after addToken/updateToken/removeToken
\* of c returned is never served the instance cached before the mutation:
\* what the cache serves was built from the current registration of c.
C3_InvalidationOnMutation ==
  (done.op = "createServerForToken" /\ done.hit) => ~instances[done.server].invalidated

\* the live sessions that were created with `token`
LiveSessionsOf(token) == {sid \in DOMAIN sessions : transports[sid].token = token}

C4_NoCachePoisoning ==
  [][ /\ (\E i \in 1..Len(calls) :
             /\ calls[i].pc = "awaitFactory"
             /\ calls' = RemoveAt(calls, i)
             /\ instances' = instances)
          => (done'.error = ErrFactory /\ activeServers' = activeServers)
      /\ done'.hit
          => /\ done'.server \in 1..Len(instances')
             /\ instances'[done'.server].token = done'.token
    ]_vars

C4_Witness ==
  /\ done.op = "createServerForToken"
  /\ done.error = ErrFactory
  /\ activeServers[done.token] = NoServer
  /\ MapHas(tokenToServerFactory, done.token)

\* C5: close() is called on a factory-built instance only by the instance
\* cache (removeActiveServer), never by the session table.
C5_SoleCloser ==
  \A i \in 1..Len(instances) : instances[i].closedBy \subseteq {"cache"}

\* C7: destroySession(id) returns true exactly when id was in the table, and
\* then the table loses exactly that id; otherwise it returns false and the
\* table is unchanged; a destroyed id never enters the table again, so the
\* count drops by one however often destroySession(id) is called.
C7_DestroyIdempotent ==
  [][ /\ done'.op = "destroySession"
          => /\ done'.bool = (done'.sid \in DOMAIN sessions)
             /\ sessions' = SessionsDelete(sessions, done'.sid)
             /\ Cardinality(DOMAIN sessions') =
                  Cardinality(DOMAIN sessions) - (IF done'.bool THEN 1 ELSE 0)
      /\ \A sid \in DOMAIN sessions' \ DOMAIN sessions : ~SessionDestroyedEmitted(sid)
    ]_vars

C7_Witness ==
  /\ done.op = "destroySession"
  /\ ~done.bool
  /\ SessionDestroyedEmitted(done.sid)
  /\ done.sid \notin DOMAIN sessions

\* C8: when destroyAllSessions() settles and no session was initialized in
\* the meantime, the table is empty and every server other than the default
\* server that a swept session was bound to has received a close call, also
\* when some close call failed.
C8_ShutdownComplete ==
  [][ (done'.op = "destroyAllSessions" /\ done'.clean)
        => /\ DOMAIN sessions' = {}
           /\ done'.error = ""
           /\ \A sid \in done'.ids :
                transports'[sid].server # Default
                  => instances'[transports'[sid].server].closeCalls >= 1
    ]_vars

C8_Witness ==
  /\ done.op = "destroyAllSessions"
  /\ done.clean
  /\ done.bool
  /\ \E sid \in done.ids : transports[sid].server # Default
  /\ Cardinality(done.ids) >= 2

\* C9: when shutdown() resolves, no session is left in the table.
C9_ShutdownCleansUp ==
  (done.op = "shutdown" /\ done.error = "") => getSessionCount = 0

\* C10: verifyAccessToken(t) fails with 'Invalid token' exactly when t is not
\* registered, returns {token: t, clientId: 'client-' + t, scopes: []}
\* otherwise, and changes neither the registry nor the cache nor invokes a
\* factory.
C10_Verify ==
  [][ done'.op = "verifyAccessToken"
        => /\ done'.error = (IF MapHas(tokenToServerFactory, done'.token)
                             THEN "" ELSE ErrInvalidToken)
           /\ MapHas(tokenToServerFactory, done'.token)
                => done'.auth = [token |-> done'.token,
                                 clientId |-> <<"client-", done'.token>>,
                                 scopes |-> <<>>]
           /\ UNCHANGED <<tokenToServerFactory, activeServers, instances, factoryCalls, calls>>
    ]_vars

C10_Witness ==
  /\ done.op = "verifyAccessToken"
  /\ done.error = ErrInvalidToken
  /\ activeServers[done.token] # NoServer

C12_InvalidRejected ==
  [][ \A t \in Tokens :
        (hasProvider /\ ~MapHas(tokenToServerFactory, t) /\ createSession(t))
          => /\ done'.op = "createSession"
             /\ done'.token = t
             /\ done'.error = ErrInvalidToken
             /\ UNCHANGED <<factoryCalls, instances, activeServers, calls,
                            sessions, transports, emitted>>
    ]_vars

C12_Witness ==
  /\ done.op = "createSession"
  /\ done.error = ErrInvalidToken
  /\ hasProvider
  /\ defaultServer = Default
  /\ ~MapHas(tokenToServerFactory, done.token)

C15_CleanupVisible ==
  [][ /\ (/\ done'.op \in {"removeToken", "updateToken"}
          /\ done'.bool
          /\ activeServers[done'.token] # NoServer)
            => /\ activeServers'[done'.token] = NoServer
               /\ getStats'.activeServers = getStats.activeServers - 1
      /\ done'.op = "clearAllTokens"
            => /\ getStats'.activeServers = 0
               /\ getStats'.registeredTokens = 0
    ]_vars

\* C16: removeToken(c) returns true exactly when c was registered when it was
\* called, and hasToken(c) is false afterwards; when it returns false the
\* registry, the instance cache and the token count are unchanged, no close
\* is started, and the facade emits neither tokenRemoved nor serverRemoved.
C16_RemoveTokenResult ==
  [][ done'.op \in {"removeToken", "PerBearerMcpServer.removeToken"}
        => /\ done'.bool = hasToken(done'.token)
           /\ ~MapHas(tokenToServerFactory', done'.token)
           /\ ~done'.bool
                => /\ tokenToServerFactory' = tokenToServerFactory
                   /\ activeServers' = activeServers
                   /\ getTokenCount' = getTokenCount
                   /\ removals' = removals
                   /\ instances' = instances
                   /\ emits' = <<>>
    ]_vars

C16_Witness ==
  /\ done.op = "PerBearerMcpServer.removeToken"
  /\ ~done.bool
  /\ getTokenCount > 0

\* C17: updateToken(c, f) on a token c that is not registered returns false
\* and changes nothing: c is not added, the registry and the cache are as
\* before and the facade emits no tokenUpdated. On a registered token it
\* returns true and the registered tokens, their count and their order are
\* the same after the call as before it.
C17_UpdateTokenResult ==
  [][ done'.op \in {"updateToken", "PerBearerMcpServer.updateToken"}
        => /\ done'.bool = hasToken(done'.token)
           /\ getRegisteredTokens' = getRegisteredTokens
           /\ getTokenCount' = getTokenCount
           /\ ~done'.bool
                => /\ ~MapHas(tokenToServerFactory', done'.token)
                   /\ tokenToServerFactory' = tokenToServerFactory
                   /\ activeServers' = activeServers
                   /\ removals' = removals
                   /\ instances' = instances
                   /\ emits' = <<>>
    ]_vars

C17_Witness ==
  /\ done.op = "PerBearerMcpServer.updateToken"
  /\ ~done.bool
  /\ getTokenCount > 0

\* getRegisteredTokens() has no token twice, getTokenCount() is its length,
\* and hasToken(t) holds exactly for the tokens it lists
RegistryWellFormed ==
  /\ \A i, j \in 1..Len(getRegisteredTokens) :
        getRegisteredTokens[i] = getRegisteredTokens[j] => i = j
  /\ getTokenCount = Len(getRegisteredTokens)
  /\ \A t \in Tokens :
        hasToken(t) <=> \E i \in 1..Len(getRegisteredTokens) : getRegisteredTokens[i] = t

\* C18: getRegisteredTokens() lists every registered token exactly once, in
\* the order of the registrations that made the tokens registered:
\* addToken of an unregistered token appends it, addToken of a registered
\* token replaces its factory and keeps the list (no second entry, no error),
\* updateToken keeps the list, removeToken takes the token out, clearAllTokens
\* empties the list and nothing else changes it; getTokenCount() is the
\* length of the list.
C18_RegistryListing ==
  /\ RegistryWellFormed
  /\ [][ /\ RegistryWellFormed'
         /\ \A t \in Tokens, f \in Factories :
               addToken(t, f)
                 => /\ getRegisteredTokens' =
                         IF hasToken(t) THEN getRegisteredTokens
                                        ELSE Append(getRegisteredTokens, t)
                    /\ MapGet(tokenToServerFactory', t) = Factory(f, "none")
                    /\ done'.error = ""
         /\ \A t \in Tokens, f \in Factories :
               updateToken(t, f) => getRegisteredTokens' = getRegisteredTokens
         /\ \A t \in Tokens :
               removeToken(t)
                 => getRegisteredTokens' = SelectSeq(getRegisteredTokens, LAMBDA x : x # t)
         /\ clearAllTokens => getRegisteredTokens' = <<>>
         /\ done'.op \notin {"addToken", "updateToken", "removeToken", "clearAllTokens"}
               => getRegisteredTokens' = getRegisteredTokens
       ]_vars

C18_Witness ==
  /\ done.op = "addToken"
  /\ getTokenCount = 2
  /\ getRegisteredTokens[1] = done.token
  /\ MapGet(tokenToServerFactory, done.token) = Factory("f2", "none")

\* C19: createServerForToken(c) for a token with no cached instance and no
\* registered factory fails at once with 'No server factory found for token':
\* no factory is invoked, no call is left pending, no instance is built and
\* the cache is as before.
C19_NoFactoryFails ==
  [][ \A t \in Tokens :
        (activeServers[t] = NoServer /\ ~hasToken(t) /\ createServerForToken(t))
          => /\ done'.op = "createServerForToken" /\ done'.token = t
             /\ done'.error = ErrNoFactory
             /\ done'.server = NoServer
             /\ UNCHANGED <<factoryCalls, calls, instances, activeServers>>
    ]_vars

C19_Witness ==
  /\ done.op = "createServerForToken"
  /\ done.error = ErrNoFactory
  /\ activeServers[done.token] = NoServer
  /\ ~hasToken(done.token)

\* C20: destroySession and destroyAllSessions remove a session bound to the
\* shared default server at once, without a close(): no close is counted on
\* the default server or on any instance for it and no teardown is left
\* waiting for one; only shutdown() closes the default server.
C20_DefaultNotClosed ==
  [][ /\ \A sid \in DOMAIN sessions :
            (sessions[sid].server = defaultServer /\ destroySession(sid))
              => /\ sid \notin DOMAIN sessions'
                 /\ done'.op = "destroySession" /\ done'.sid = sid /\ done'.bool
                 /\ UNCHANGED <<destroys, instances, defaultCloseCalls>>
      /\ destroyAllSessions
            => /\ defaultCloseCalls' = defaultCloseCalls
               /\ \A sid \in DOMAIN sessions :
                     sessions[sid].server = defaultServer => sid \notin DOMAIN sessions'
               /\ \A i \in 1..Len(destroys') :
                     i > Len(destroys) => sessions[destroys'[i].sid].server # defaultServer
      /\ defaultCloseCalls' # defaultCloseCalls => shutdown
    ]_vars

C20_Witness ==
  /\ done.op = "destroySession"
  /\ done.bool
  /\ defaultServer = Default
  /\ transports[done.sid].server = Default
  /\ defaultCloseCalls = 0

\* the instance `server` was built by a factory of `token`
BuiltFor(insts, server, token) ==
  server \in 1..Len(insts) /\ insts[server].token = token

\* a createSession call given no credential goes to the default server
\* without a factory call, or fails when there is no default server
NoCredentialChoice ==
  /\ createSession(NoToken)
        => /\ factoryCalls' = factoryCalls
           /\ defaultServer = NoServer
                => (done'.op = "createSession" /\ done'.error = ErrNoServer)
           /\ defaultServer # NoServer
                => (Len(calls') = Len(calls) + 1 /\ calls'[Len(calls')].pc = "awaitConnect")
  /\ \A i \in 1..Len(calls') :
        (calls'[i].kind = "session" /\ calls'[i].token = NoToken)
          => (calls'[i].pc = "awaitConnect" /\ calls'[i].server = defaultServer)
  /\ (done'.op = "createSession" /\ done'.error = "" /\ done'.token = NoToken)
        => (done'.server = defaultServer /\ defaultServer # NoServer)

\* C21 as stated: a session created with a credential is bound to an instance
\* resolved for that credential, never to the default server; one created
\* without a credential is bound to the default server with no factory call,
\* or createSession fails with 'No server available for session creation'.
C21_BackingChoice_AsStated ==
  [][ /\ (done'.op = "createSession" /\ done'.error = "" /\ done'.token # NoToken)
            => /\ BuiltFor(instances', done'.server, done'.token)
               /\ done'.server # defaultServer
      /\ NoCredentialChoice
    ]_vars

\* C21 (amended): the credential decides only when the SessionManager has a
\* bearer token provider. With a provider, a session created with a credential
\* is bound to an instance resolved for that credential, never to the default
\* server. Without a provider the credential is ignored: the session is bound
\* to the default server. Without a credential the session is bound to the
\* default server with no factory call, or createSession fails with 'No
\* server available for session creation'.
C21_BackingChoice ==
  [][ /\ (done'.op = "createSession" /\ done'.error = "" /\ done'.token # NoToken)
            => IF hasProvider
               THEN /\ BuiltFor(instances', done'.server, done'.token)
                    /\ done'.server # defaultServer
               ELSE /\ done'.server = defaultServer
                    /\ factoryCalls' = factoryCalls
      /\ NoCredentialChoice
    ]_vars

C21_Witness ==
  /\ done.op = "createSession"
  /\ done.error = ""
  /\ done.token # NoToken
  /\ hasProvider
  /\ defaultServer = Default
  /\ BuiltFor(instances, done.server, done.token)

\* the number of sessionCreated events the SessionManager emitted for sid
SessionCreatedCount(log, sid) ==
  Cardinality({k \in 1..Len(log) : log[k] = [name |-> "sessionCreated", sid |-> sid]})

\* C22: when createSession resolves, the transport it returns has a session
\* id no session had before, the session is in the table (getSessionCount()
\* has grown by one and getSession(id) returns the transport) and
\* sessionCreated has been emitted exactly once for it.
C22_RegisteredOnReturn ==
  [][ (done'.op = "createSession" /\ done'.error = "")
        => /\ transports'[done'.sid].sessionId # 0
           /\ transports'[done'.sid].sessionId \notin DOMAIN sessions
           /\ getSessionCount' = getSessionCount + 1
           /\ transports'[done'.sid].sessionId \in DOMAIN sessions'
           /\ sessions'[transports'[done'.sid].sessionId].transport = done'.sid
           /\ SessionCreatedCount(emitted', transports'[done'.sid].sessionId) = 1
    ]_vars

C25_RemovalEvents ==
  [][ (done'.op = "PerBearerMcpServer.removeToken" /\ done'.bool)
        => /\ Len(emits') = 2
           /\ emits'[1].name = "serverRemoved" /\ emits'[1].token = done'.token
           /\ emits'[2].name = "tokenRemoved" /\ emits'[2].token = done'.token
           /\ ~MapHas(tokenToServerFactory', done'.token)
    ]_vars

C25_Witness ==
  /\ done.op = "PerBearerMcpServer.removeToken"
  /\ done.bool
  /\ factoryCalls[done.token] = 0
  /\ \A i \in 1..Len(instances) : instances[i].token # done.token
  /\ Len(emits) = 2

\* C26 as stated: removeToken(c) of the facade emits serverRemoved only if the
\* instance cache held an entry for c when it was called; for a registered
\* token with no cached instance it emits tokenRemoved alone.
C26_ServerRemovedIfCached ==
  [][ (done'.op = "PerBearerMcpServer.removeToken" /\ done'.bool)
        => /\ (\E k \in 1..Len(emits') : emits'[k].name = "serverRemoved")
                => activeServers[done'.token] # NoServer
           /\ activeServers[done'.token] = NoServer
                => emits' = <<Event("tokenRemoved", done'.token, 0, "", FALSE)>>
    ]_vars

\* C26 (amended): removeToken(c) of the facade emits serverRemoved exactly
\* when c was registered, whatever the instance cache holds: for a registered
\* token with no cached instance it emits serverRemoved, with serverName
\* 'unknown-server', and then tokenRemoved.
C26_ServerRemovedIfRegistered ==
  [][ done'.op = "PerBearerMcpServer.removeToken"
        => /\ (\E k \in 1..Len(emits') : emits'[k].name = "serverRemoved")
                <=> hasToken(done'.token)
           /\ (hasToken(done'.token) /\ activeServers[done'.token] = NoServer)
                => \E had \in BOOLEAN :
                     emits' = <<Event("serverRemoved", done'.token, 0, "unknown-server", had),
                                Event("tokenRemoved", done'.token, 0, "", FALSE)>>
    ]_vars

C26_Witness ==
  /\ done.op = "PerBearerMcpServer.removeToken"
  /\ done.bool
  /\ activeServers[done.token] = NoServer
  /\ removals = <<>>
  /\ emits[1].name = "serverRemoved"
  /\ emits[1].serverName = "unknown-server"

\* the serverRegistered events among evs
Registered(evs) == {k \in 1..Len(evs) : evs[k].name = "serverRegistered"}

\* C27 as stated: addToken(c, f) of the facade emits tokenAdded(c) and no
\* serverRegistered; every step in which a resolve constructs a new instance
\* emits exactly one serverRegistered for its token, and no other step emits
\* one.
C27_LazyRegistration_AsStated ==
  [][ /\ done'.op = "PerBearerMcpServer.addToken"
            => emits' = <<Event("tokenAdded", done'.token, 0, "", FALSE)>>
      /\ Registered(emits') # {} => Len(instances') = Len(instances) + 1
      /\ Len(instances') = Len(instances) + 1
            => /\ Cardinality(Registered(emits')) = 1
               /\ \A k \in Registered(emits') :
                     emits'[k].token = instances'[Len(instances')].token
    ]_vars

\* C27 (amended): addToken(c, f) of the facade emits tokenAdded(c) and nothing else.
\* serverRegistered is emitted only by a step in which a resolve constructs a
\* new instance, once per such step, and every construction from a factory
\* that addToken registered emits it, with the token, the instance's name
\* ('unnamed-server' when it has none) and its version ('1.0.0' when it has
\* none); a resolve served from the cache or a failing factory call adds no
\* instance and emits none.
C27_LazyRegistration ==
  [][ /\ done'.op = "PerBearerMcpServer.addToken"
            => emits' = <<Event("tokenAdded", done'.token, 0, "", FALSE)>>
      /\ Registered(emits') # {}
            => /\ Cardinality(Registered(emits')) = 1
               /\ Len(instances') = Len(instances) + 1
               /\ \A k \in Registered(emits') :
                     emits'[k].token = instances'[Len(instances')].token
      /\ \A i \in 1..Len(calls) :
            (FactoryResolved(i) /\ calls[i].factory.wrap = "addToken")
              => LET fn == calls[i].factory.fn IN
                 emits' = <<[name |-> "serverRegistered", token |-> calls[i].token,
                             sid |-> 0, flag |-> FALSE,
                             serverName |-> IF fn = "f1" THEN "f1-server"
                                                         ELSE "unnamed-server",
                             serverVersion |-> IF fn = "f1" THEN "2.1.0" ELSE "1.0.0",
                             error |-> ""]>>
      /\ \A i \in 1..Len(calls) : FactoryRejected(i) => emits' = <<>>
      /\ (done'.op = "createServerForToken" /\ done'.hit) => emits' = <<>>
    ]_vars

C27_Witness ==
  /\ Len(emits) = 1
  /\ emits[1].name = "serverRegistered"
  /\ emits[1].serverName = "unnamed-server"
  /\ emits[1].serverVersion = "1.0.0"
  /\ facade

\* the serverUpdated events among evs
Updated(evs) == {k \in 1..Len(evs) : evs[k].name = "serverUpdated"}

\* the instances built for `token` from its registration in force: none of
\* them was cached, or being built, when the token was last mutated
BuiltFromCurrent(token) ==
  {j \in 1..Len(instances) :
     instances[j].token = token /\ ~instances[j].invalidated /\ ~instances[j].superseded}

\* C28: updateToken(c, f) of the facade on a registered token emits
\* tokenUpdated(c) and no serverUpdated. serverUpdated is emitted only by a
\* step in which a resolve of c constructs a new instance from f, with c and
\* the instance's name, and once per update: the construction that emits it
\* is the first from f, also when several resolves of c overlap.
C28_LazyUpdate ==
  [][ /\ (done'.op = "PerBearerMcpServer.updateToken" /\ done'.bool)
            => emits' = <<Event("tokenUpdated", done'.token, 0, "", FALSE)>>
      /\ Updated(emits') # {}
            => /\ Cardinality(Updated(emits')) = 1
               /\ Len(instances') = Len(instances) + 1
               /\ \A k \in Updated(emits') :
                     /\ emits'[k].token = instances'[Len(instances')].token
                     /\ emits'[k].serverName =
                          (IF instances'[Len(instances')].name = ""
                           THEN "unnamed-server" ELSE instances'[Len(instances')].name)
      /\ \A i \in 1..Len(calls) :
            (FactoryResolved(i) /\ calls[i].factory.wrap = "updateToken" /\ ~calls[i].stale)
              => /\ Updated(emits') # {}
                 /\ BuiltFromCurrent(calls[i].token) = {}
    ]_vars

\* C29: in the state a tokenRemoved(c) listener sees, getStats() reflects the
\* removal: tokens does not list c and registeredTokens is its length, no
\* instance of c is counted in activeServers, and the close of the instance
\* that was cached for c has been started or is over.
C29_StatsInsideRemoval ==
  (/\ done.op = "PerBearerMcpServer.removeToken"
   /\ \E k \in 1..Len(emits) : emits[k].name = "tokenRemoved")
    => /\ \A i \in 1..Len(getStats.tokens) : getStats.tokens[i] # done.token
       /\ getStats.registeredTokens = Len(getStats.tokens)
       /\ activeServers[done.token] = NoServer
       /\ getStats.activeServers =
            Cardinality({t \in Tokens \ {done.token} : activeServers[t] # NoServer})
       /\ \A j \in 1..Len(instances) :
             (instances[j].token = done.token /\ instances[j].invalidated)
               => instances[j].closeCalls > 0

\* the events of `name` among evs
Named(evs, name) == SelectSeq(evs, LAMBDA e : e.name = name)

Pending(token) == \E i \in 1..Len(calls) : calls[i].token = token

\* C34: while the factory of one token never completes, every resolve of
\* another token settles, addToken, removeToken and updateToken complete in
\* the step they are called in, and a resolve invokes no factory but one of
\* its own token and touches no cache entry but its own.
C34_Independence ==
  /\ <>[](\A t \in Tokens \ {HungToken} : ~Pending(t))
  /\ [][ /\ \A t \in Tokens :
             ( \/ createServerForToken(t)
               \/ (done'.op = "createServerForToken" /\ done'.token = t) ) =>
               /\ factoryCalls'[t] <= factoryCalls[t] + 1
               /\ \A u \in Tokens \ {t} :
                    /\ factoryCalls'[u] = factoryCalls[u]
                    /\ activeServers'[u] = activeServers[u]
                    /\ Pending(u)' = Pending(u)
         /\ \A t \in Tokens :
             ( \/ \E f \in Factories : addToken(t, f) \/ updateToken(t, f)
               \/ removeToken(t) ) =>
               /\ done'.op \in {"addToken", "removeToken", "updateToken"}
               /\ done'.token = t /\ done'.error = ""
               /\ calls' = Perturbed(calls, t)
       ]_vars

\* a resolve of another token returned its instance while the resolve of the
\* hung token is still waiting
C34_Witness ==
  /\ Pending(HungToken)
  /\ done.op = "createServerForToken" /\ done.token # HungToken
  /\ done.server # NoServer /\ ~done.hit
  /\ factoryCalls[done.token] = 1

\* C35: in every state a token with a cache entry is registered, and the
\* cached instance was constructed by the factory now registered for it; so
\* getStats().activeServers is at most getStats().registeredTokens.
C35_RegistryCacheConsistent ==
  /\ \A t \in Tokens :
       activeServers[t] # NoServer =>
         /\ hasToken(t)
         /\ instances[activeServers[t]].token = t
         /\ instances[activeServers[t]].factory = MapGet(tokenToServerFactory, t).fn
  /\ getStats.activeServers <= getStats.registeredTokens

\* C36: the instance createServerForToken returns, and the instance a session
\* returned by createSession is bound to, has never had close() called on it.
C36_NoClosedInstanceServed ==
  ( /\ done.op \in {"createServerForToken", "createSession"}
    /\ done.error = ""
    /\ done.server \in 1..Len(instances) )
    => instances[done.server].closeCalls = 0

\* C37: close() is called at most once on each instance, and an instance
\* leaves the cache (its entry is deleted or overwritten) only after close()
\* has been called on it.
C37_EvictsWhatItClosed ==
  [][ /\ \A k \in 1..Len(instances') : instances'[k].closeCalls <= 1
      /\ \A t \in Tokens :
           (activeServers[t] # NoServer /\ activeServers'[t] # activeServers[t]) =>
             instances'[activeServers[t]].closeCalls >= 1
    ]_vars

\* how often the SessionManager emitted `name` for session sid
EventCount(log, name, sid) ==
  Cardinality({k \in 1..Len(log) : log[k] = [name |-> name, sid |-> sid]})

\* C38: for every session id the SessionManager emits sessionCreated once (a
\* session in the table has exactly one), sessionDestroyed at most once and
\* only after its sessionCreated; a destroySession returns true exactly when
\* it is the one that emits sessionDestroyed, and when a destroySession that
\* found the session returns, overlapped or not, exactly one destroySession
\* of that session has returned true.
C38_SessionEvents ==
  [][ /\ \A sid \in 1..MaxTransports :
           /\ EventCount(emitted', "sessionCreated", sid) <= 1
           /\ EventCount(emitted', "sessionDestroyed", sid) <= 1
           /\ sid \in DOMAIN sessions' => EventCount(emitted', "sessionCreated", sid) = 1
      /\ \A k \in 1..Len(emitted') :
           emitted'[k].name = "sessionDestroyed" =>
             \E j \in 1..(k - 1) :
               emitted'[j] = [name |-> "sessionCreated", sid |-> emitted'[k].sid]
      /\ done'.op = "destroySession" =>
           (done'.bool <=>
              emitted' = Append(emitted, [name |-> "sessionDestroyed", sid |-> done'.sid]))
      /\ \A i \in 1..Len(destroys) :
           DestroyAfterClose(i) =>
             EventCount(emitted', "sessionDestroyed", destroys[i].sid) = 1
    ]_vars

\* of two destroySession calls of one session that overlapped, the second to
\* continue returned false after the first had returned true
C38_Witness ==
  /\ done.op = "destroySession" /\ ~done.clean /\ ~done.bool
  /\ EventCount(emitted, "sessionDestroyed", done.sid) = 1

C40_FailureLeavesUsable ==
  [][ /\ (done'.op = "start" /\ done'.error \notin {"", ErrRunning}) =>
           /\ ~isRunning'
           /\ Len(Named(emits', "started")) = 0
      /\ (done'.op = "stop" /\ done'.error \in {ErrShutdown, ErrClose}) =>
           /\ isRunning' /\ plugin' /\ startPc' = "idle"
      /\ (done'.op \in {"start", "stop"} \/ startPc' # startPc) =>
           tokenToServerFactory' = tokenToServerFactory
    ]_vars

=============================================================================
